---- MODULE Spec2Model ----
(***************************************************************************)
(* Model of lotofacil_analyzer.py: the AnalisadorLotofacil class.  The     *)
(* state is the analyzer after construction (the table read from the CSV   *)
(* and the history extracted from it) plus the result of the last method   *)
(* called on it.  Every method is a pure pass over historico_numeros, so   *)
(* each is an operator, computed the way the Python code computes it       *)
(* (Counter insertion order, stable sorts, slices, truncation, rounding),  *)
(* and an action that stores its return value.                             *)
(***************************************************************************)
EXTENDS Integers, Sequences, FiniteSets, TLC

VARIABLES df, historico_numeros, ultimo, guardado

vars == <<df, historico_numeros, ultimo, guardado>>

(***************************************************************************)
(* Program constants and model bounds.                                     *)
(***************************************************************************)
NumBolas == 15
MaxNumero == 25
TamanhoJogo == 15
TamanhoFaixa == 5
MaxRows == 3

todos_numeros == 1..MaxNumero
colunas_bolas == 1..NumBolas

(***************************************************************************)
(* Python built-ins used by the code.                                      *)
(***************************************************************************)
Min(a, b) == IF a <= b THEN a ELSE b
Max(a, b) == IF a >= b THEN a ELSE b

\* seq[:n]: the first n elements; a negative n drops the last -n elements.
Take(s, n) ==
    LET k == IF n >= 0 THEN Min(n, Len(s)) ELSE Max(0, Len(s) + n)
    IN  SubSeq(s, 1, k)

\* seq[-n:] for n > 0: the last n elements, the whole list when it is shorter.
TakeLast(s, n) == SubSeq(s, Max(1, Len(s) - n + 1), Len(s))

\* TLC evaluates [i \in 1..n |-> e] on demand, at every application; s \o <<>>
\* is the same sequence with its elements computed once.
Force(s) == s \o <<>>

\* sorted(s, key=...): stable, ascending; ks[i] is the key of s[i].
SortedBy(s, ks) ==
    LET rank == Force([i \in DOMAIN s |->
                   1 + Cardinality({j \in DOMAIN s :
                         ks[j] < ks[i] \/ (ks[j] = ks[i] /\ j < i)})])
    IN  Force([r \in DOMAIN s |-> s[CHOOSE i \in DOMAIN s : rank[i] = r]])

\* sorted(s, key=..., reverse=True): descending, equal keys keep their order;
\* ks[i] is the key of s[i].
SortedByReverse(s, ks) ==
    LET rank == Force([i \in DOMAIN s |->
                   1 + Cardinality({j \in DOMAIN s :
                         ks[j] > ks[i] \/ (ks[j] = ks[i] /\ j < i)})])
    IN  Force([r \in DOMAIN s |-> s[CHOOSE i \in DOMAIN s : rank[i] = r]])

\* sorted(s) on a list of integers.
Sorted(s) == SortedBy(s, s)

RECURSIVE AscendingFrom(_, _, _)
AscendingFrom(S, lo, hi) ==
    IF lo > hi THEN <<>>
    ELSE IF lo = hi THEN (IF lo \in S THEN <<lo>> ELSE <<>>)
    ELSE LET mid == (lo + hi) \div 2
         IN  AscendingFrom(S, lo, mid) \o AscendingFrom(S, mid + 1, hi)

\* The elements of a finite set of integers, ascending: list(range(a, b)),
\* and the iteration order of a Python set of small non-negative integers.
SetToSortedSeq(S) ==
    IF S = {} THEN <<>>
    ELSE AscendingFrom(S, CHOOSE x \in S : \A y \in S : x <= y,
                          CHOOSE x \in S : \A y \in S : x >= y)

RECURSIVE SumSeq(_)
SumSeq(s) == IF s = <<>> THEN 0 ELSE s[1] + SumSeq(Tail(s))

RECURSIVE MaxSeq(_)
MaxSeq(s) == IF Len(s) = 1 THEN s[1] ELSE Max(s[1], MaxSeq(Tail(s)))

Range(s) == {s[i] : i \in DOMAIN s}

(***************************************************************************)
(* The table read from the CSV.  A cell of a ball column is an integer, a  *)
(* text that is not a number, or a missing value (NaN).  df.cols is the    *)
(* set of ball columns the file's header has.                              *)
(***************************************************************************)
IntCell(n) == [k |-> "int", v |-> n]
StrCell == [k |-> "str", v |-> 0]
NanCell == [k |-> "nan", v |-> 0]

\* int(row[col]) raises ValueError on a text that is no number and on NaN.
IntRaises(cell) == cell.k # "int"
IntOf(cell) == cell.v

RowOf(s) == [c \in colunas_bolas |-> IntCell(s[c])]

RowA == RowOf(<<1, 2, 3, 4, 5, 6, 7, 8, 9, 10, 11, 12, 13, 14, 15>>)
RowB == RowOf(<<25, 24, 23, 22, 21, 20, 19, 18, 17, 16, 15, 14, 13, 12, 11>>)
RowE == RowOf(<<2, 3, 4, 5, 6, 7, 8, 9, 10, 11, 12, 13, 14, 15, 16>>)
RowStr == [RowB EXCEPT ![8] = StrCell]
RowNan == [RowA EXCEPT ![15] = NanCell]
RowInvalido == RowOf(<<26, 1, 1, 2, 3, 4, 5, 6, 7, 8, 9, 10, 11, 12, 13>>)

RowPool == {RowA, RowB, RowE, RowStr, RowNan, RowInvalido}

ColChoices == {colunas_bolas, colunas_bolas \ {NumBolas}}

RECURSIVE SeqsUpTo(_, _)
SeqsUpTo(S, n) ==
    IF n = 0 THEN {<<>>}
    ELSE LET shorter == SeqsUpTo(S, n - 1)
         IN  shorter \cup {Append(s, x) : s \in {t \in shorter : Len(t) = n - 1}, x \in S}

(***************************************************************************)
(* _extrair_historico                                                      *)
(***************************************************************************)
\* ExtrairLinha with the row appended as read, not sorted.
ExtrairLinha_SemOrdenar(cols, row) ==
    LET presentes == SetToSortedSeq(colunas_bolas \cap cols)
        raises    == \E i \in DOMAIN presentes : IntRaises(row[presentes[i]])
        numeros   == Force([i \in DOMAIN presentes |-> IntOf(row[presentes[i]])])
    IN  IF raises THEN <<>>
        ELSE IF Len(numeros) = NumBolas THEN <<numeros>>
        ELSE <<>>

\* One iteration of the loop over the rows: the try block and its except.
ExtrairLinha(cols, row) ==
    LET presentes == SetToSortedSeq(colunas_bolas \cap cols)
        raises    == \E i \in DOMAIN presentes : IntRaises(row[presentes[i]])
        numeros   == Force([i \in DOMAIN presentes |-> IntOf(row[presentes[i]])])
    IN  IF raises THEN <<>>
        ELSE IF Len(numeros) = NumBolas THEN <<Sorted(numeros)>>
        ELSE <<>>

RECURSIVE ExtrairLinhas(_, _)
ExtrairLinhas(cols, rows) ==
    IF rows = <<>> THEN <<>>
    ELSE ExtrairLinha(cols, Head(rows)) \o ExtrairLinhas(cols, Tail(rows))

_extrair_historico(d) == ExtrairLinhas(d.cols, d.rows)

(***************************************************************************)
(* collections.Counter: keys are kept in the order they are first seen;    *)
(* most_common sorts the items by count, descending, with a stable sort.   *)
(***************************************************************************)
RECURSIVE Flatten(_)
Flatten(h) == IF h = <<>> THEN <<>> ELSE Head(h) \o Flatten(Tail(h))

CounterKeys(todos) ==
    LET first == {i \in DOMAIN todos : \A j \in 1..(i - 1) : todos[j] # todos[i]}
        idx   == SetToSortedSeq(first)
    IN  Force([r \in DOMAIN idx |-> todos[idx[r]]])

\* contador[x], which is 0 for a key the Counter does not hold.
CounterGet(todos, x) == Cardinality({i \in DOMAIN todos : todos[i] = x})

\* [contador[x] for x in s]: the sort key lambda x: contador[x] along s.
Contagem(todos, s) == Force([i \in DOMAIN s |-> CounterGet(todos, s[i])])

\* [num for num, _ in Counter(todos).most_common()]
MostCommonAll(todos) ==
    LET keys == CounterKeys(todos)
    IN  SortedByReverse(keys, Contagem(todos, keys))

\* [num for num, _ in Counter(todos).most_common(n)]
MostCommon(todos, n) == Take(MostCommonAll(todos), n)

(***************************************************************************)
(* jogo_mais_sorteados, jogo_menos_sorteados                               *)
(***************************************************************************)
\* jogo_mais_sorteados taking the other end of the ranking.
jogo_mais_sorteados_Ultimos(h) ==
    Sorted(TakeLast(MostCommonAll(Flatten(h)), TamanhoJogo))

jogo_mais_sorteados(h) == Sorted(MostCommon(Flatten(h), TamanhoJogo))

\* jogo_menos_sorteados taking the other end of the ranking.
jogo_menos_sorteados_Primeiros(h) ==
    Sorted(Take(MostCommonAll(Flatten(h)), TamanhoJogo))

jogo_menos_sorteados(h) == Sorted(TakeLast(MostCommonAll(Flatten(h)), TamanhoJogo))

(***************************************************************************)
(* _analisar_padroes_numero                                                *)
(***************************************************************************)
Aparicoes(h, numero) ==
    Force([i \in DOMAIN h |-> IF \E c \in DOMAIN h[i] : h[i][c] = numero THEN 1 ELSE 0])

\* The body of the loop over aparicoes; st holds the loop's variables.
PassoSequencia(st, presente) ==
    IF presente = 1
    THEN IF st.em_sequencia_presente
         THEN [st EXCEPT !.seq_atual = @ + 1]
         ELSE [st EXCEPT
                 !.sequencias_ausente =
                     IF st.seq_atual > 0 THEN Append(@, st.seq_atual) ELSE @,
                 !.seq_atual = 1,
                 !.em_sequencia_presente = TRUE]
    ELSE IF ~st.em_sequencia_presente
         THEN [st EXCEPT !.seq_atual = @ + 1]
         ELSE [st EXCEPT
                 !.sequencias_presente =
                     IF st.seq_atual > 0 THEN Append(@, st.seq_atual) ELSE @,
                 !.seq_atual = 1,
                 !.em_sequencia_presente = FALSE]

RECURSIVE LacoSequencias(_, _, _)
LacoSequencias(ap, i, st) ==
    IF i > Len(ap) THEN st
    ELSE LacoSequencias(ap, i + 1, PassoSequencia(st, ap[i]))

\* Sequencias without the step that adds the run still open at the end.
Sequencias_SemUltima(ap) ==
    LacoSequencias(ap, 1, [seq_atual |-> 0,
                           em_sequencia_presente |-> (ap[1] = 1),
                           sequencias_presente |-> <<>>,
                           sequencias_ausente |-> <<>>])

\* The two run lists once the last open run is added (requires ap # <<>>).
Sequencias(ap) ==
    LET st0 == [seq_atual |-> 0,
                em_sequencia_presente |-> (ap[1] = 1),
                sequencias_presente |-> <<>>,
                sequencias_ausente |-> <<>>]
        st  == LacoSequencias(ap, 1, st0)
    IN  IF st.seq_atual > 0
        THEN IF st.em_sequencia_presente
             THEN [st EXCEPT !.sequencias_presente = Append(@, st.seq_atual)]
             ELSE [st EXCEPT !.sequencias_ausente = Append(@, st.seq_atual)]
        ELSE st

\* ContarFinal without the break: every matching draw is counted.
RECURSIVE ContarFinal_SemBreak(_, _, _)
ContarFinal_SemBreak(ap, i, valor) ==
    IF i = 0 THEN 0
    ELSE (IF ap[i] = valor THEN 1 ELSE 0) + ContarFinal_SemBreak(ap, i - 1, valor)

\* for presente in reversed(aparicoes): count while presente == valor, else break.
RECURSIVE ContarFinal(_, _, _)
ContarFinal(ap, i, valor) ==
    IF i = 0 THEN 0
    ELSE IF ap[i] = valor THEN 1 + ContarFinal(ap, i - 1, valor)
    ELSE 0

\* np.mean(lista) if lista else 0, as the exact fraction n / d.
MediaOuZero(lista) ==
    IF lista = <<>> THEN [n |-> 0, d |-> 1]
    ELSE [n |-> SumSeq(lista), d |-> Len(lista)]

MaxOuZero(lista) == IF lista = <<>> THEN 0 ELSE MaxSeq(lista)

\* aparicoes[0] raises IndexError on an empty history.
AnalisarRaises(h) == h = <<>>

_analisar_padroes_numero(h, numero) ==
    LET ap  == Aparicoes(h, numero)
        seq == Sequencias(ap)
        apareceu_ultimo == ap[Len(ap)] = 1
    IN  [numero |-> numero,
         total_aparicoes |-> SumSeq(ap),
         sequencias_presente |-> seq.sequencias_presente,
         sequencias_ausente |-> seq.sequencias_ausente,
         media_seq_presente |-> MediaOuZero(seq.sequencias_presente),
         media_seq_ausente |-> MediaOuZero(seq.sequencias_ausente),
         max_seq_presente |-> MaxOuZero(seq.sequencias_presente),
         max_seq_ausente |-> MaxOuZero(seq.sequencias_ausente),
         sorteios_sem_aparecer |->
             IF apareceu_ultimo THEN 0 ELSE ContarFinal(ap, Len(ap), 0),
         sorteios_aparecendo |->
             IF apareceu_ultimo THEN ContarFinal(ap, Len(ap), 1) ELSE 0,
         apareceu_ultimo |-> apareceu_ultimo]

(***************************************************************************)
(* calcular_probabilidade_proximo.  The score is a float in the code; the  *)
(* model keeps it as the exact fraction n / d with d = len(historico).     *)
(***************************************************************************)
PontosSituacao(stats) ==
    IF stats.apareceu_ultimo
    THEN IF stats.sorteios_aparecendo * stats.media_seq_presente.d
              < stats.media_seq_presente.n
         THEN 50 ELSE 20
    ELSE IF stats.sorteios_sem_aparecer * stats.media_seq_ausente.d
              >= stats.media_seq_ausente.n
         THEN 60 ELSE 10

\* stats['sorteios_aparecendo'] > stats['max_seq_presente'] * 0.8
Penalidade(stats) ==
    IF stats.apareceu_ultimo
       /\ stats.sorteios_aparecendo * 10 > stats.max_seq_presente * 8
    THEN 30 ELSE 0

\* freq_normalizada = stats['total_aparicoes'] / len(self.historico_numeros)
freq_normalizada(stats, len_h) == [n |-> stats.total_aparicoes, d |-> len_h]

\* calcular_probabilidade_proximo adding 30 per appearance, the frequency
\* not divided by the length of the history.
calcular_probabilidade_proximo_SemNormalizar(stats, len_h) ==
    [n |-> (PontosSituacao(stats) - Penalidade(stats)) * len_h
             + stats.total_aparicoes * 30 * len_h,
     d |-> len_h]

calcular_probabilidade_proximo(stats, len_h) ==
    [n |-> (PontosSituacao(stats) - Penalidade(stats)) * len_h
             + stats.total_aparicoes * 30,
     d |-> len_h]

(***************************************************************************)
(* jogo_probabilidade_padrao                                               *)
(***************************************************************************)
\* jogo_probabilidade_padrao ranking the numbers from 25 down to 1, so that
\* equal scores keep the higher number first.
jogo_probabilidade_padrao_Decrescente(h) ==
    LET prob == [numero \in todos_numeros |->
                   calcular_probabilidade_proximo(
                       _analisar_padroes_numero(h, numero), Len(h)).n]
        numeros == Force([i \in todos_numeros |-> MaxNumero + 1 - i])
        probabilidades ==
            SortedByReverse(numeros, Force([i \in DOMAIN numeros |-> prob[numeros[i]]]))
    IN  Sorted(Take(probabilidades, TamanhoJogo))

jogo_probabilidade_padrao(h) ==
    LET prob == [numero \in todos_numeros |->
                   calcular_probabilidade_proximo(
                       _analisar_padroes_numero(h, numero), Len(h)).n]
        numeros == SetToSortedSeq(todos_numeros)
        probabilidades ==
            SortedByReverse(numeros, Force([i \in DOMAIN numeros |-> prob[numeros[i]]]))
    IN  Sorted(Take(probabilidades, TamanhoJogo))

(***************************************************************************)
(* jogo_pares_impares_equilibrado                                          *)
(***************************************************************************)
QtdPares(jogo) == Cardinality({i \in DOMAIN jogo : jogo[i] % 2 = 0})

DistPares(h) == Force([i \in DOMAIN h |-> QtdPares(h[i])])

\* contador_dist.most_common(1)[0][0]; IndexError on an empty history.
QtdParesIdeal(h) == MostCommon(DistPares(h), 1)[1]

ParesImparesRaises(h) == h = <<>>

jogo_pares_impares_equilibrado(h) ==
    LET qtd_pares_ideal   == QtdParesIdeal(h)
        qtd_impares_ideal == TamanhoJogo - qtd_pares_ideal
        todos   == Flatten(h)
        lista_pares   == SetToSortedSeq({n \in todos_numeros : n % 2 = 0})
        lista_impares == SetToSortedSeq({n \in todos_numeros : n % 2 # 0})
        pares   == SortedByReverse(lista_pares, Contagem(todos, lista_pares))
        impares == SortedByReverse(lista_impares, Contagem(todos, lista_impares))
    IN  Sorted(Take(pares, qtd_pares_ideal) \o Take(impares, qtd_impares_ideal))

(***************************************************************************)
(* jogo_sequencias_repeticoes                                              *)
(***************************************************************************)
Repeticoes(h) ==
    Force([i \in 1..(Len(h) - 1) |->
             Cardinality(Range(h[i]) \cap Range(h[i + 1]))])

\* int(np.mean(repeticoes)): np.mean([]) is nan and int(nan) raises ValueError.
RepeticoesRaises(h) == Len(h) < 2

\* MediaRepeticoes with the mean rounded up, not truncated.
MediaRepeticoes_ParaCima(h) ==
    (SumSeq(Repeticoes(h)) + Len(Repeticoes(h)) - 1) \div Len(Repeticoes(h))

MediaRepeticoes(h) == SumSeq(Repeticoes(h)) \div Len(Repeticoes(h))

\* jogo_sequencias_repeticoes taking the new numbers from all of 1..25, the
\* numbers of the most recent draw not left out.
jogo_sequencias_repeticoes_NovosDeTodos(h) ==
    LET media_repeticoes == MediaRepeticoes(h)
        ultimo_jogo      == Range(h[Len(h)])
        todos_exceto_ultimo == Flatten(SubSeq(h, 1, Len(h) - 1))
        lista_ultimo == SetToSortedSeq(ultimo_jogo)
        numeros_ultimo_ordenados ==
            SortedByReverse(lista_ultimo,
                            Contagem(todos_exceto_ultimo, lista_ultimo))
        numeros_repetidos == Take(numeros_ultimo_ordenados, media_repeticoes)
        numeros_novos == SetToSortedSeq(todos_numeros)
        numeros_novos_ordenados ==
            SortedByReverse(numeros_novos,
                            Contagem(todos_exceto_ultimo, numeros_novos))
        qtd_novos == TamanhoJogo - Len(numeros_repetidos)
    IN  Sorted(numeros_repetidos \o Take(numeros_novos_ordenados, qtd_novos))

\* sorted(ultimo_jogo, ...) iterates a set of small integers, which CPython
\* yields in ascending order.
jogo_sequencias_repeticoes(h) ==
    LET media_repeticoes == MediaRepeticoes(h)
        ultimo_jogo      == Range(h[Len(h)])
        todos_exceto_ultimo == Flatten(SubSeq(h, 1, Len(h) - 1))
        lista_ultimo == SetToSortedSeq(ultimo_jogo)
        numeros_ultimo_ordenados ==
            SortedByReverse(lista_ultimo,
                            Contagem(todos_exceto_ultimo, lista_ultimo))
        numeros_repetidos == Take(numeros_ultimo_ordenados, media_repeticoes)
        numeros_novos == SetToSortedSeq(todos_numeros \ ultimo_jogo)
        numeros_novos_ordenados ==
            SortedByReverse(numeros_novos,
                            Contagem(todos_exceto_ultimo, numeros_novos))
        qtd_novos == TamanhoJogo - Len(numeros_repetidos)
    IN  Sorted(numeros_repetidos \o Take(numeros_novos_ordenados, qtd_novos))

(***************************************************************************)
(* jogo_distribuicao_espacial                                              *)
(***************************************************************************)
NumFaixas == 5

Faixa(f) == ((f - 1) * TamanhoFaixa + 1)..(f * TamanhoFaixa)

\* int(n / d): the mean truncated, not rounded.
RoundHalfEven_Truncado(n, d) == n \div d

\* int(round(n / d)) for n >= 0, d > 0: halves go to the even neighbour.
RoundHalfEven(n, d) ==
    LET q == n \div d
        r == n % d
    IN  IF 2 * r < d THEN q
        ELSE IF 2 * r > d THEN q + 1
        ELSE IF q % 2 = 0 THEN q ELSE q + 1

QtdNaFaixa(jogo, f) == Cardinality({i \in DOMAIN jogo : jogo[i] \in Faixa(f)})

MediaFaixa(h, f) ==
    RoundHalfEven(SumSeq(Force([i \in DOMAIN h |-> QtdNaFaixa(h[i], f)])),
                  Len(h))

\* round(np.mean([])) raises ValueError (nan) on an empty history.
DistribuicaoRaises(h) == h = <<>>

RECURSIVE SelecaoFaixas(_, _)
SelecaoFaixas(h, f) ==
    IF f > NumFaixas THEN <<>>
    ELSE LET todos == Flatten(h)
             numeros_faixa == SetToSortedSeq(Faixa(f))
             nums_ordenados ==
                 SortedByReverse(numeros_faixa, Contagem(todos, numeros_faixa))
         IN  Take(nums_ordenados, MediaFaixa(h, f)) \o SelecaoFaixas(h, f + 1)

jogo_distribuicao_espacial(h) == Sorted(SelecaoFaixas(h, 1))

(***************************************************************************)
(* jogo_machine_learning_scoring.  The four criteria are summed over the   *)
(* common denominator max_freq * max_freq_recente * 4 * len(historico).    *)
(***************************************************************************)
JanelaRecente == 50
JanelaQuentes == 5

\* max(contador.values()) raises ValueError on an empty Counter.
ScoringRaises(h) == Flatten(h) = <<>>

MaxFreq(todos) ==
    LET keys == CounterKeys(todos)
    IN  MaxSeq(Force([i \in DOMAIN keys |-> CounterGet(todos, keys[i])]))

PontosQuentes(ultimos, num) ==
    IF CounterGet(ultimos, num) >= 2 THEN 20
    ELSE IF CounterGet(ultimos, num) = 1 THEN 10
    ELSE 0

ScoresML(h) ==
    LET todos    == Flatten(h)
        recentes == Flatten(TakeLast(h, JanelaRecente))
        ultimos  == Flatten(TakeLast(h, JanelaQuentes))
        max_freq == MaxFreq(todos)
        max_freq_recente == IF recentes = <<>> THEN 1 ELSE MaxFreq(recentes)
        len_h    == Len(h)
    IN  [num \in todos_numeros |->
           CounterGet(todos, num) * 25 * max_freq_recente * 4 * len_h
           + CounterGet(recentes, num) * 30 * max_freq * 4 * len_h
           + calcular_probabilidade_proximo(
                 _analisar_padroes_numero(h, num), len_h).n
               * max_freq * max_freq_recente
           + PontosQuentes(ultimos, num) * max_freq * max_freq_recente * 4 * len_h]

jogo_machine_learning_scoring(h) ==
    LET scores  == ScoresML(h)
        numeros == SetToSortedSeq(todos_numeros)
        ranking == SortedByReverse(numeros,
                       Force([i \in DOMAIN numeros |-> scores[numeros[i]]]))
    IN  Sorted(Take(ranking, TamanhoJogo))

(***************************************************************************)
(* The two generators that call a library.  What the library does is an    *)
(* input of the call.  A 25-entry score vector (a centroid, a prediction)  *)
(* holds floats in the code; the model holds them scaled to integers.      *)
(***************************************************************************)
VetorDecrescente == Force([i \in todos_numeros |-> MaxNumero - i])
VetorCrescente   == Force([i \in todos_numeros |-> i])
VetorConstante   == Force([i \in todos_numeros |-> 1])
VetorDoisNiveis  == Force([i \in todos_numeros |-> IF i % 2 = 0 THEN 1 ELSE 0])

VetoresPool == {VetorDecrescente, VetorCrescente, VetorConstante, VetorDoisNiveis}

\* What a generator that calls a library returns: the game, the kinds of
\* the lines of detalhes, the library calls made and what the library did.
RetornoML(op, jogo, detalhes, chamadas, lib) ==
    [op |-> op, numero |-> 0, raised |-> FALSE, jogo |-> jogo, stats |-> <<>>,
     detalhes |-> detalhes, chamadas |-> chamadas, lib |-> lib]

\* An exception that leaves the generator, after the library calls made.
ExcecaoML(op, chamadas, lib) ==
    [op |-> op, numero |-> 0, raised |-> TRUE, jogo |-> <<>>, stats |-> <<>>,
     detalhes |-> <<>>, chamadas |-> chamadas, lib |-> lib]

(***************************************************************************)
(* jogo_clusterizacao_kmeans.  lib is what KMeans does: fit raises         *)
(* (lib.falha), or it leaves one label per draw, cluster ids from 0, and   *)
(* one centre per cluster; cluster_centers[id + 1] is that of cluster id.  *)
(***************************************************************************)
NClustersPadrao == 5

\* Cluster ids for n draws: the first draw alone in cluster 1, or the draws
\* alternating between clusters 1 and 0.
RotulosPool(n) ==
    {Force([i \in 1..n |-> IF i = 1 THEN 1 ELSE 0]),
     Force([i \in 1..n |-> i % 2])}

CentrosPool == {<<VetorDecrescente, VetorDoisNiveis>>,
                <<VetorConstante, VetorCrescente>>}

\* fit raises when there are fewer draws than clusters, and whenever else
\* the library fails.
KMeansPool(n, n_clusters) ==
    {[falha |-> "fit", cluster_labels |-> <<>>, cluster_centers |-> <<>>]}
    \cup (IF n < n_clusters THEN {}
          ELSE {[falha |-> "nenhuma", cluster_labels |-> l, cluster_centers |-> c] :
                  l \in RotulosPool(n), c \in CentrosPool})

\* dados_para_kmeans[i, numero - 1] = 1 on a 25-column array raises
\* IndexError for a column outside -25..24; it is not inside the try.
VetorizacaoRaises(h) ==
    \E i \in DOMAIN h : \E c \in DOMAIN h[i] :
       h[i][c] - 1 > MaxNumero - 1 \/ h[i][c] - 1 < -MaxNumero

\* jogo_clusterizacao_kmeans with equal centroid values ranked from position
\* 25 down.
jogo_clusterizacao_kmeans_Decrescente(h, n_clusters, lib) ==
    IF h = <<>>
    THEN RetornoML("jogo_clusterizacao_kmeans", <<>>,
                   <<"analisando", "historico vazio">>, <<>>,
                   [falha |-> "nao chamada"])
    ELSE IF VetorizacaoRaises(h)
    THEN ExcecaoML("jogo_clusterizacao_kmeans", <<>>, [falha |-> "nao chamada"])
    ELSE IF lib.falha = "fit"
    THEN RetornoML("jogo_clusterizacao_kmeans", <<>>,
                   <<"analisando", "erro k-means">>, <<"KMeans", "fit">>,
                   [falha |-> "fit"])
    ELSE LET cluster_labels   == lib.cluster_labels
             maior_cluster_id == MostCommon(cluster_labels, 1)[1]
             centroid_maior_cluster == lib.cluster_centers[maior_cluster_id + 1]
             posicoes == Force([i \in todos_numeros |-> MaxNumero + 1 - i])
             numeros_com_prob ==
                 SortedByReverse(posicoes,
                     Force([i \in DOMAIN posicoes |->
                              centroid_maior_cluster[posicoes[i]]]))
             jogo_sugerido == Sorted(Take(numeros_com_prob, TamanhoJogo))
         IN  RetornoML("jogo_clusterizacao_kmeans", jogo_sugerido,
                       <<"analisando", "maior cluster", "centroide", "top 15">>,
                       <<"KMeans", "fit">>, lib)

jogo_clusterizacao_kmeans(h, n_clusters, lib) ==
    IF h = <<>>
    THEN RetornoML("jogo_clusterizacao_kmeans", <<>>,
                   <<"analisando", "historico vazio">>, <<>>,
                   [falha |-> "nao chamada"])
    ELSE IF VetorizacaoRaises(h)
    THEN ExcecaoML("jogo_clusterizacao_kmeans", <<>>, [falha |-> "nao chamada"])
    ELSE IF lib.falha = "fit"
    THEN RetornoML("jogo_clusterizacao_kmeans", <<>>,
                   <<"analisando", "erro k-means">>, <<"KMeans", "fit">>,
                   [falha |-> "fit"])
    ELSE LET cluster_labels   == lib.cluster_labels
             maior_cluster_id == MostCommon(cluster_labels, 1)[1]
             centroid_maior_cluster == lib.cluster_centers[maior_cluster_id + 1]
             posicoes == SetToSortedSeq(todos_numeros)
             numeros_com_prob ==
                 SortedByReverse(posicoes,
                     Force([i \in DOMAIN posicoes |->
                              centroid_maior_cluster[posicoes[i]]]))
             jogo_sugerido == Sorted(Take(numeros_com_prob, TamanhoJogo))
         IN  RetornoML("jogo_clusterizacao_kmeans", jogo_sugerido,
                       <<"analisando", "maior cluster", "centroide", "top 15">>,
                       <<"KMeans", "fit">>, lib)

(***************************************************************************)
(* jogo_series_temporais_lstm.  tensorflow_available is the module flag    *)
(* TENSORFLOW_AVAILABLE as the call reads it; lib is what Keras does: the  *)
(* call named by lib.falha raises, or predict returns lib.previsao_prob.   *)
(***************************************************************************)
sequence_length == 10

FalhasLstm == {"Sequential", "compile", "fit", "predict"}

LstmPool ==
    {[falha |-> f, previsao_prob |-> <<>>] : f \in FalhasLstm}
    \cup {[falha |-> "nenhuma", previsao_prob |-> v] : v \in VetoresPool}

\* jogo_series_temporais_lstm with equal probabilities ranked from number 25
\* down.
jogo_series_temporais_lstm_Decrescente(h, tensorflow_available, lib) ==
    IF ~tensorflow_available
    THEN RetornoML("jogo_series_temporais_lstm", <<>>,
                   <<"tensorflow ausente", "pip install">>, <<>>,
                   [falha |-> "indisponivel"])
    ELSE IF Len(h) < sequence_length + 1
    THEN RetornoML("jogo_series_temporais_lstm", <<>>,
                   <<"historico insuficiente">>, <<>>,
                   [falha |-> "nao chamada"])
    ELSE IF lib.falha = "Sequential"
    THEN ExcecaoML("jogo_series_temporais_lstm", <<"Sequential">>,
                   [falha |-> "Sequential"])
    ELSE IF lib.falha = "compile"
    THEN ExcecaoML("jogo_series_temporais_lstm", <<"Sequential", "compile">>,
                   [falha |-> "compile"])
    ELSE IF lib.falha = "fit"
    THEN RetornoML("jogo_series_temporais_lstm", <<>>,
                   <<"erro treinamento">>, <<"Sequential", "compile", "fit">>,
                   [falha |-> "fit"])
    ELSE IF lib.falha = "predict"
    THEN ExcecaoML("jogo_series_temporais_lstm",
                   <<"Sequential", "compile", "fit", "predict">>,
                   [falha |-> "predict"])
    ELSE LET previsao_prob == lib.previsao_prob
             numeros == Force([i \in todos_numeros |-> MaxNumero + 1 - i])
             numeros_com_prob ==
                 SortedByReverse(numeros,
                     Force([i \in DOMAIN numeros |-> previsao_prob[numeros[i]]]))
             jogo_sugerido == Sorted(Take(numeros_com_prob, TamanhoJogo))
         IN  RetornoML("jogo_series_temporais_lstm", jogo_sugerido,
                       <<"analisando", "modelo criado", "treinamento concluido",
                         "top 15">>,
                       <<"Sequential", "compile", "fit", "predict">>, lib)

\* jogo_series_temporais_lstm with no try around model.fit.
jogo_series_temporais_lstm_SemTry(h, tensorflow_available, lib) ==
    IF ~tensorflow_available
    THEN RetornoML("jogo_series_temporais_lstm", <<>>,
                   <<"tensorflow ausente", "pip install">>, <<>>,
                   [falha |-> "indisponivel"])
    ELSE IF Len(h) < sequence_length + 1
    THEN RetornoML("jogo_series_temporais_lstm", <<>>,
                   <<"historico insuficiente">>, <<>>,
                   [falha |-> "nao chamada"])
    ELSE IF lib.falha = "Sequential"
    THEN ExcecaoML("jogo_series_temporais_lstm", <<"Sequential">>,
                   [falha |-> "Sequential"])
    ELSE IF lib.falha = "compile"
    THEN ExcecaoML("jogo_series_temporais_lstm", <<"Sequential", "compile">>,
                   [falha |-> "compile"])
    ELSE IF lib.falha = "fit"
    THEN ExcecaoML("jogo_series_temporais_lstm",
                   <<"Sequential", "compile", "fit">>, [falha |-> "fit"])
    ELSE IF lib.falha = "predict"
    THEN ExcecaoML("jogo_series_temporais_lstm",
                   <<"Sequential", "compile", "fit", "predict">>,
                   [falha |-> "predict"])
    ELSE LET previsao_prob == lib.previsao_prob
             numeros == SetToSortedSeq(todos_numeros)
             numeros_com_prob ==
                 SortedByReverse(numeros,
                     Force([i \in DOMAIN numeros |-> previsao_prob[numeros[i]]]))
             jogo_sugerido == Sorted(Take(numeros_com_prob, TamanhoJogo))
         IN  RetornoML("jogo_series_temporais_lstm", jogo_sugerido,
                       <<"analisando", "modelo criado", "treinamento concluido",
                         "top 15">>,
                       <<"Sequential", "compile", "fit", "predict">>, lib)

jogo_series_temporais_lstm(h, tensorflow_available, lib) ==
    IF ~tensorflow_available
    THEN RetornoML("jogo_series_temporais_lstm", <<>>,
                   <<"tensorflow ausente", "pip install">>, <<>>,
                   [falha |-> "indisponivel"])
    ELSE IF Len(h) < sequence_length + 1
    THEN RetornoML("jogo_series_temporais_lstm", <<>>,
                   <<"historico insuficiente">>, <<>>,
                   [falha |-> "nao chamada"])
    ELSE IF lib.falha = "Sequential"
    THEN ExcecaoML("jogo_series_temporais_lstm", <<"Sequential">>,
                   [falha |-> "Sequential"])
    ELSE IF lib.falha = "compile"
    THEN ExcecaoML("jogo_series_temporais_lstm", <<"Sequential", "compile">>,
                   [falha |-> "compile"])
    ELSE IF lib.falha = "fit"
    THEN RetornoML("jogo_series_temporais_lstm", <<>>,
                   <<"erro treinamento">>, <<"Sequential", "compile", "fit">>,
                   [falha |-> "fit"])
    ELSE IF lib.falha = "predict"
    THEN ExcecaoML("jogo_series_temporais_lstm",
                   <<"Sequential", "compile", "fit", "predict">>,
                   [falha |-> "predict"])
    ELSE LET previsao_prob == lib.previsao_prob
             numeros == SetToSortedSeq(todos_numeros)
             numeros_com_prob ==
                 SortedByReverse(numeros,
                     Force([i \in DOMAIN numeros |-> previsao_prob[numeros[i]]]))
             jogo_sugerido == Sorted(Take(numeros_com_prob, TamanhoJogo))
         IN  RetornoML("jogo_series_temporais_lstm", jogo_sugerido,
                       <<"analisando", "modelo criado", "treinamento concluido",
                         "top 15">>,
                       <<"Sequential", "compile", "fit", "predict">>, lib)

(***************************************************************************)
(* The analyzer: construction, then calls of its methods in any order.     *)
(* ultimo is the outcome of the most recent call: the method, its          *)
(* argument, whether it raised, and the game or the statistics returned.   *)
(* guardado is an outcome the caller has taken from an earlier call.       *)
(***************************************************************************)
Nenhum == [op |-> "nenhum", numero |-> 0, raised |-> FALSE,
           jogo |-> <<>>, stats |-> <<>>]

Retorno(op, jogo) ==
    [op |-> op, numero |-> 0, raised |-> FALSE, jogo |-> jogo, stats |-> <<>>]

Excecao(op, numero) ==
    [op |-> op, numero |-> numero, raised |-> TRUE, jogo |-> <<>>, stats |-> <<>>]

\* __init__: read the table, extract the history.
Init ==
    /\ df \in [cols : ColChoices, rows : SeqsUpTo(RowPool, MaxRows)]
    /\ historico_numeros = _extrair_historico(df)
    /\ ultimo = Nenhum
    /\ guardado = Nenhum

Call_jogo_mais_sorteados ==
    /\ ultimo' = Retorno("jogo_mais_sorteados",
                         jogo_mais_sorteados(historico_numeros))
    /\ UNCHANGED <<df, historico_numeros, guardado>>

Call_jogo_menos_sorteados ==
    /\ ultimo' = Retorno("jogo_menos_sorteados",
                         jogo_menos_sorteados(historico_numeros))
    /\ UNCHANGED <<df, historico_numeros, guardado>>

Call_analisar_padroes_numero ==
    /\ \E numero \in todos_numeros :
         ultimo' = IF AnalisarRaises(historico_numeros)
                   THEN Excecao("_analisar_padroes_numero", numero)
                   ELSE [op |-> "_analisar_padroes_numero", numero |-> numero,
                         raised |-> FALSE, jogo |-> <<>>,
                         stats |-> <<_analisar_padroes_numero(
                                       historico_numeros, numero)>>]
    /\ UNCHANGED <<df, historico_numeros, guardado>>

Call_jogo_probabilidade_padrao ==
    /\ ultimo' = IF AnalisarRaises(historico_numeros)
                 THEN Excecao("jogo_probabilidade_padrao", 0)
                 ELSE Retorno("jogo_probabilidade_padrao",
                              jogo_probabilidade_padrao(historico_numeros))
    /\ UNCHANGED <<df, historico_numeros, guardado>>

Call_jogo_pares_impares_equilibrado ==
    /\ ultimo' = IF ParesImparesRaises(historico_numeros)
                 THEN Excecao("jogo_pares_impares_equilibrado", 0)
                 ELSE Retorno("jogo_pares_impares_equilibrado",
                              jogo_pares_impares_equilibrado(historico_numeros))
    /\ UNCHANGED <<df, historico_numeros, guardado>>

\* jogo_sequencias_repeticoes taking the most recent draw off the history
\* as it reads it.
Call_jogo_sequencias_repeticoes_Consome ==
    /\ historico_numeros # <<>>
    /\ ultimo' = IF RepeticoesRaises(historico_numeros)
                 THEN Excecao("jogo_sequencias_repeticoes", 0)
                 ELSE Retorno("jogo_sequencias_repeticoes",
                              jogo_sequencias_repeticoes(historico_numeros))
    /\ historico_numeros' = SubSeq(historico_numeros, 1,
                                   Len(historico_numeros) - 1)
    /\ UNCHANGED <<df, guardado>>

Call_jogo_sequencias_repeticoes ==
    /\ ultimo' = IF RepeticoesRaises(historico_numeros)
                 THEN Excecao("jogo_sequencias_repeticoes", 0)
                 ELSE Retorno("jogo_sequencias_repeticoes",
                              jogo_sequencias_repeticoes(historico_numeros))
    /\ UNCHANGED <<df, historico_numeros, guardado>>

Call_jogo_distribuicao_espacial ==
    /\ ultimo' = IF DistribuicaoRaises(historico_numeros)
                 THEN Excecao("jogo_distribuicao_espacial", 0)
                 ELSE Retorno("jogo_distribuicao_espacial",
                              jogo_distribuicao_espacial(historico_numeros))
    /\ UNCHANGED <<df, historico_numeros, guardado>>

Call_jogo_machine_learning_scoring ==
    /\ ultimo' = IF ScoringRaises(historico_numeros)
                 THEN Excecao("jogo_machine_learning_scoring", 0)
                 ELSE Retorno("jogo_machine_learning_scoring",
                              jogo_machine_learning_scoring(historico_numeros))
    /\ UNCHANGED <<df, historico_numeros, guardado>>

NClustersTeste == 2

Call_jogo_clusterizacao_kmeans ==
    /\ \E n_clusters \in {NClustersPadrao, NClustersTeste} :
         \E lib \in KMeansPool(Len(historico_numeros), n_clusters) :
            ultimo' = jogo_clusterizacao_kmeans(historico_numeros, n_clusters, lib)
    /\ UNCHANGED <<df, historico_numeros, guardado>>

Call_jogo_series_temporais_lstm ==
    /\ \E tensorflow_available \in BOOLEAN : \E lib \in LstmPool :
         ultimo' = jogo_series_temporais_lstm(historico_numeros,
                                              tensorflow_available, lib)
    /\ UNCHANGED <<df, historico_numeros, guardado>>

\* The first seven calls of gerar_todos_jogos: the place of the first that
\* raises, 0 when all return, and then their seven games.
SeteJogos(h) ==
    LET excecao == IF AnalisarRaises(h) THEN 3
                   ELSE IF ParesImparesRaises(h) THEN 4
                   ELSE IF RepeticoesRaises(h) THEN 5
                   ELSE IF DistribuicaoRaises(h) THEN 6
                   ELSE IF ScoringRaises(h) THEN 7
                   ELSE 0
    IN  [excecao |-> excecao,
         jogos |-> IF excecao # 0 THEN <<>>
                   ELSE <<jogo_mais_sorteados(h), jogo_menos_sorteados(h),
                          jogo_probabilidade_padrao(h),
                          jogo_pares_impares_equilibrado(h),
                          jogo_sequencias_repeticoes(h),
                          jogo_distribuicao_espacial(h),
                          jogo_machine_learning_scoring(h)>>]

\* gerar_todos_jogos after its first seven calls: the two library
\* generators, no try around any of the nine; jogos_finais holds the nine
\* games in the order of the calls.
jogos_finais(sete, jogo8, jogo9) ==
    LET excecao(k, libs) ==
            [op |-> "gerar_todos_jogos", numero |-> k, raised |-> TRUE,
             jogo |-> <<>>, stats |-> <<>>, jogos_finais |-> <<>>, lib |-> libs]
    IN  IF sete.excecao # 0 THEN excecao(sete.excecao, <<>>)
        ELSE IF jogo8.raised THEN excecao(8, <<jogo8.lib>>)
        ELSE IF jogo9.raised THEN excecao(9, <<jogo8.lib, jogo9.lib>>)
        ELSE [op |-> "gerar_todos_jogos", numero |-> 0, raised |-> FALSE,
              jogo |-> <<>>, stats |-> <<>>,
              jogos_finais |-> sete.jogos \o <<jogo8.jogo, jogo9.jogo>>,
              lib |-> <<jogo8.lib, jogo9.lib>>]

Call_gerar_todos_jogos ==
    /\ \E sete \in {SeteJogos(historico_numeros)} :
         \E jogo8 \in {jogo_clusterizacao_kmeans(historico_numeros,
                                                 NClustersPadrao, lib) :
                         lib \in KMeansPool(Len(historico_numeros),
                                            NClustersPadrao)} :
           \E jogo9 \in {jogo_series_temporais_lstm(historico_numeros,
                                                    tensorflow_available, lib) :
                           tensorflow_available \in BOOLEAN, lib \in LstmPool} :
             ultimo' = jogos_finais(sete, jogo8, jogo9)
    /\ UNCHANGED <<df, historico_numeros, guardado>>

\* The caller takes what the last call returned, as a test does in
\* resultado, detalhes = ...; what it has taken once it keeps.
Guardar ==
    /\ guardado = Nenhum
    /\ ultimo # Nenhum
    /\ guardado' = ultimo
    /\ ultimo' = Nenhum
    /\ UNCHANGED <<df, historico_numeros>>

\* The score of one number as the ranking generators take it: the run-length
\* analysis of the number, then calcular_probabilidade_proximo on its result.
Call_calcular_probabilidade_proximo ==
    /\ \E numero \in todos_numeros :
         ultimo' = IF AnalisarRaises(historico_numeros)
                   THEN Excecao("calcular_probabilidade_proximo", numero)
                   ELSE LET stats == _analisar_padroes_numero(
                                         historico_numeros, numero)
                        IN  [op |-> "calcular_probabilidade_proximo",
                             numero |-> numero, raised |-> FALSE,
                             jogo |-> <<>>, stats |-> <<stats>>,
                             freq_normalizada |->
                                 freq_normalizada(stats, Len(historico_numeros)),
                             score |->
                                 calcular_probabilidade_proximo(
                                     stats, Len(historico_numeros))]
    /\ UNCHANGED <<df, historico_numeros, guardado>>

Next ==
    \/ Call_jogo_mais_sorteados
    \/ Call_jogo_menos_sorteados
    \/ Call_jogo_probabilidade_padrao
    \/ Call_jogo_pares_impares_equilibrado
    \/ Call_jogo_sequencias_repeticoes
    \/ Call_jogo_distribuicao_espacial
    \/ Call_jogo_machine_learning_scoring

\* The analyzer under calls of its seven deterministic generators.
Spec == Init /\ [][Next]_vars

\* The analyzer under calls of the run-length analysis, for any number.
NextPadroes == Call_analisar_padroes_numero

SpecPadroes == Init /\ [][NextPadroes]_vars

\* A draw spread over the five bands.
RowX == RowOf(<<1, 2, 3, 4, 5, 7, 8, 9, 12, 13, 15, 16, 18, 19, 20>>)

DrawPool == {RowA, RowB, RowE, RowX}

\* __init__ on a table whose rows are all draws.
InitRanking ==
    /\ df \in [cols : {colunas_bolas}, rows : SeqsUpTo(DrawPool, MaxRows)]
    /\ historico_numeros = _extrair_historico(df)
    /\ ultimo = Nenhum
    /\ guardado = Nenhum

NextRanking ==
    \/ Call_jogo_probabilidade_padrao
    \/ Call_jogo_machine_learning_scoring

\* The analyzer under calls of its two score-ranking generators.
SpecRanking == InitRanking /\ [][NextRanking]_vars

NextPontuacao == Call_calcular_probabilidade_proximo

\* The analyzer under calls of the scoring engine, for any number.
SpecPontuacao == InitRanking /\ [][NextPontuacao]_vars

(***************************************************************************)
(* Histories long enough for jogo_series_temporais_lstm: the draws of its  *)
(* test, list(range(i, i + 15)) for i from 1 to 11, repeated in a cycle.   *)
(***************************************************************************)
MaxSorteios == 11
NumJanelas == 11

RowJanela(k) == RowOf([c \in colunas_bolas |-> k + c - 1])

SorteiosTeste(n) ==
    Force([i \in 1..n |-> RowJanela(((i - 1) % NumJanelas) + 1)])

InitML ==
    /\ df \in {[cols |-> colunas_bolas, rows |-> SorteiosTeste(n)] :
                 n \in 0..MaxSorteios}
    /\ historico_numeros = _extrair_historico(df)
    /\ ultimo = Nenhum
    /\ guardado = Nenhum

NextML ==
    \/ Call_jogo_clusterizacao_kmeans
    \/ Call_jogo_series_temporais_lstm
    \/ Call_gerar_todos_jogos

\* The analyzer under calls of the two library generators and of
\* gerar_todos_jogos, on histories of up to MaxSorteios draws.
SpecML == InitML /\ [][NextML]_vars

(***************************************************************************)
(* Short histories of unlike draws, for every method together.             *)
(***************************************************************************)
SorteiosVariados(n) ==
    LET ciclo == <<RowA, RowB, RowE, RowX>>
    IN  Force([i \in 1..n |-> ciclo[((i - 1) % Len(ciclo)) + 1]])

InitTodos ==
    /\ df \in {[cols |-> colunas_bolas, rows |-> SorteiosVariados(n)] :
                 n \in 0..MaxRows}
    /\ historico_numeros = _extrair_historico(df)
    /\ ultimo = Nenhum
    /\ guardado = Nenhum

NextTodos ==
    \/ Call_jogo_mais_sorteados
    \/ Call_jogo_menos_sorteados
    \/ Call_jogo_probabilidade_padrao
    \/ Call_jogo_pares_impares_equilibrado
    \/ Call_jogo_sequencias_repeticoes
    \/ Call_jogo_distribuicao_espacial
    \/ Call_jogo_machine_learning_scoring
    \/ Call_jogo_clusterizacao_kmeans
    \/ Call_jogo_series_temporais_lstm
    \/ Call_gerar_todos_jogos
    \/ Guardar

\* The analyzer under calls of its nine generators and of gerar_todos_jogos
\* in any order, the caller keeping one of the outcomes.
SpecTodos == InitTodos /\ [][NextTodos]_vars

(***************************************************************************)
(* Vocabulary of the properties, stated without the operators above.       *)
(***************************************************************************)
\* The Draw invariant: 15 values, all distinct, all in 1..25.
ValidDraw(jogo) ==
    /\ Len(jogo) = TamanhoJogo
    /\ \A i \in DOMAIN jogo : jogo[i] \in todos_numeros
    /\ \A i, j \in DOMAIN jogo : i # j => jogo[i] # jogo[j]

ValidHistory(h) == \A i \in DOMAIN h : ValidDraw(h[i])

\* A CandidateSet: 15 distinct numbers of 1..25 in ascending order.
IsCandidateSet(jogo) ==
    /\ Len(jogo) = TamanhoJogo
    /\ \A i \in DOMAIN jogo : jogo[i] \in todos_numeros
    /\ \A i \in 1..(Len(jogo) - 1) : jogo[i] < jogo[i + 1]

\* Number of draws of h that hold n (for valid draws, n's occurrence count).
Ocorrencias(h, n) == Cardinality({i \in DOMAIN h : n \in Range(h[i])})

\* A row all of whose 15 ball fields exist and hold integers.
LinhaInteira(d, i) ==
    \A c \in colunas_bolas : c \in d.cols /\ d.rows[i][c].k = "int"

LinhasInteiras(d) == {i \in DOMAIN d.rows : LinhaInteira(d, i)}

\* jogo is the ascending arrangement of the 15 values of row i.
OrdenacaoDaLinha(jogo, d, i) ==
    /\ Len(jogo) = NumBolas
    /\ \A k \in 1..(Len(jogo) - 1) : jogo[k] <= jogo[k + 1]
    /\ \A c \in colunas_bolas :
         Cardinality({k \in DOMAIN jogo : jogo[k] = d.rows[i][c].v})
           = Cardinality({c2 \in colunas_bolas : d.rows[i][c2].v = d.rows[i][c].v})

\* C1: the history is, in row order, the ascending sort of every row whose
\* 15 ball fields are integers; a row with a non-numeric or missing field
\* adds nothing, later rows are still taken, identical rows stay separate.
C1_HistoryIsSortedIntegerRows ==
    LET inteiras == SetToSortedSeq(LinhasInteiras(df))
    IN  /\ Len(historico_numeros) = Len(inteiras)
        /\ \A k \in DOMAIN inteiras :
             OrdenacaoDaLinha(historico_numeros[k], df, inteiras[k])

\* A table of three rows: an unsorted integer row, a row with a field that
\* does not parse, and the first row again; both integer rows are kept.
C1_Witness ==
    /\ df.cols = colunas_bolas
    /\ Len(df.rows) = 3
    /\ LinhaInteira(df, 1)
    /\ \E c \in 1..(NumBolas - 1) : df.rows[1][c].v > df.rows[1][c + 1].v
    /\ ~LinhaInteira(df, 2)
    /\ df.rows[3] = df.rows[1]
    /\ Len(historico_numeros) = 2
    /\ historico_numeros[1] = historico_numeros[2]

\* C2 (as claimed): every element of the history has exactly 15 values,
\* all distinct and all in 1..25.
C2_DrawInvariant == ValidHistory(historico_numeros)

\* PresenceTrace of a number: TRUE at i iff draw i holds it.
PresenceTrace(h, n) == [i \in DOMAIN h |-> n \in Range(h[i])]

\* The lengths, in chronological order, of the maximal runs of v in trace.
MaximalRuns(trace, v) ==
    LET n      == Len(trace)
        starts == {i \in 1..n : trace[i] = v /\ (i = 1 \/ trace[i - 1] # v)}
        ends   == {j \in 1..n : trace[j] = v /\ (j = n \/ trace[j + 1] # v)}
        s      == SetToSortedSeq(starts)
        e      == SetToSortedSeq(ends)
    IN  [k \in 1..Cardinality(starts) |-> e[k] - s[k] + 1]

\* m is the maximum of lista, 0 when it is empty.
IsMaxOf(m, lista) ==
    IF lista = <<>> THEN m = 0
    ELSE (\E i \in DOMAIN lista : lista[i] = m)
         /\ (\A i \in DOMAIN lista : lista[i] <= m)

\* The fraction q is the sum of lista over its length, 0 when it is empty.
IsMeanOf(q, lista) ==
    IF lista = <<>> THEN q.n = 0
    ELSE q.d > 0 /\ q.n * Len(lista) = SumSeq(lista) * q.d

AnalisePronta ==
    /\ ultimo.op = "_analisar_padroes_numero"
    /\ ~ultimo.raised

TrailingRun(trace) ==
    LET n     == Len(trace)
        flips == {i \in 1..n : trace[i] # trace[n]}
    IN  IF flips = {} THEN n
        ELSE n - (CHOOSE i \in flips : \A j \in flips : j <= i)

\* C4: on a non-empty history exactly one of sorteios_aparecendo and
\* sorteios_sem_aparecer is positive; it is sorteios_aparecendo iff the
\* number is in the most recent draw, and its value is the number of draws,
\* counted back from the last, whose presence equals that of the last draw.
C4_TrailingRun ==
    AnalisePronta =>
      LET st    == ultimo.stats[1]
          trace == PresenceTrace(historico_numeros, ultimo.numero)
          noUltimo == trace[Len(trace)]
      IN  /\ (st.sorteios_aparecendo > 0) # (st.sorteios_sem_aparecer > 0)
          /\ (st.sorteios_aparecendo > 0) <=> noUltimo
          /\ st.apareceu_ultimo <=> noUltimo
          /\ noUltimo => /\ st.sorteios_aparecendo = TrailingRun(trace)
                         /\ st.sorteios_sem_aparecer = 0
          /\ ~noUltimo => /\ st.sorteios_sem_aparecer = TrailingRun(trace)
                          /\ st.sorteios_aparecendo = 0

\* The analysis of a number whose last run is shorter than its number of
\* appearances: present, absent, present.
C4_Witness ==
    /\ AnalisePronta
    /\ ultimo.stats[1].sorteios_aparecendo = 1
    /\ ultimo.stats[1].total_aparicoes = 2
    /\ ultimo.stats[1].sorteios_sem_aparecer = 0

Geradores ==
    {"jogo_mais_sorteados", "jogo_menos_sorteados", "jogo_probabilidade_padrao",
     "jogo_pares_impares_equilibrado", "jogo_sequencias_repeticoes",
     "jogo_distribuicao_espacial", "jogo_machine_learning_scoring"}

\* The last call was generator op and it returned, on a history of at
\* least n draws that all satisfy the Draw invariant.
Gerou(op, n) ==
    /\ ultimo.op = op
    /\ ~ultimo.raised
    /\ Len(historico_numeros) >= n
    /\ ValidHistory(historico_numeros)

\* Occurrence count of every number of 1..25 over the history.
Contagens(h) == Force([n \in todos_numeros |-> Ocorrencias(h, n)])

\* The k numbers of S that come first when S is ordered by count
\* descending, ties by ascending number.
TopDesc(S, oc, k) ==
    {n \in S : Cardinality({m \in S : oc[m] > oc[n]
                                       \/ (oc[m] = oc[n] /\ m < n)}) < k}

\* The k numbers of S that come first when S is ordered by count
\* ascending, ties by ascending number.
TopAsc(S, oc, k) ==
    {n \in S : Cardinality({m \in S : oc[m] < oc[n]
                                       \/ (oc[m] = oc[n] /\ m < n)}) < k}

IsAscending(jogo) == \A i \in 1..(Len(jogo) - 1) : jogo[i] < jogo[i + 1]

\* C5 (as claimed): on a history of at least 2 valid draws each of the seven
\* deterministic generators returns exactly 15 distinct integers of 1..25,
\* sorted ascending.
C5_EveryGeneratorReturns15Distinct ==
    (\E op \in Geradores : Gerou(op, 2)) => IsCandidateSet(ultimo.jogo)

\* C6 (as claimed): on a non-empty history of valid draws
\* jogo_mais_sorteados returns, sorted, the first 15 numbers of 1..25 by
\* count descending with ties broken by ascending number.
C6_MostFrequentTiesAscending ==
    Gerou("jogo_mais_sorteados", 1) =>
      /\ IsAscending(ultimo.jogo)
      /\ Range(ultimo.jogo)
           = TopDesc(todos_numeros, Contagens(historico_numeros), TamanhoJogo)

\* C7 (as claimed): on a non-empty history of valid draws
\* jogo_menos_sorteados returns the first 15 numbers of 1..25 by count
\* ascending with ties broken by ascending number, a number never drawn
\* having count 0; every number with a count strictly below that of a
\* number of the output is in the output.
C7_LeastFrequentTiesAscending ==
    Gerou("jogo_menos_sorteados", 1) =>
      LET oc == Contagens(historico_numeros)
      IN  /\ IsAscending(ultimo.jogo)
          /\ Range(ultimo.jogo) = TopAsc(todos_numeros, oc, TamanhoJogo)
          /\ \A n \in todos_numeros :
               (\E m \in Range(ultimo.jogo) : oc[n] < oc[m])
                 => n \in Range(ultimo.jogo)

QuinzeAbaixoDoMaximo(h) ==
    Cardinality({m \in todos_numeros :
                   Ocorrencias(h, m) > 0 /\ Ocorrencias(h, m) < Len(h)})
      >= TamanhoJogo

C9_MostFrequentDominance ==
    Gerou("jogo_mais_sorteados", 1) =>
      LET oc == Contagens(historico_numeros)
          in == Range(ultimo.jogo)
      IN  /\ \A n \in todos_numeros \ in : \A m \in in : oc[n] <= oc[m]
          /\ \A t \in 0..Len(historico_numeros) :
               Cardinality({n \in todos_numeros : oc[n] > t}) <= TamanhoJogo
                 => {n \in todos_numeros : oc[n] > t} \subseteq in

\* jogo_mais_sorteados has returned on a history where the counts differ
\* inside the output and a drawn number is left out.
C9_Witness ==
    /\ Gerou("jogo_mais_sorteados", 2)
    /\ LET oc == Contagens(historico_numeros)
           in == Range(ultimo.jogo)
       IN  /\ \E n, m \in in : oc[n] < oc[m]
           /\ \E n \in todos_numeros \ in : oc[n] > 0

\* The per-draw even-count that occurs most often, the largest one when
\* several occur equally often.
ModaParesMaior(h) ==
    LET vistos  == {QtdPares(h[i]) : i \in DOMAIN h}
        freq(v) == Cardinality({i \in DOMAIN h : QtdPares(h[i]) = v})
        modas   == {v \in vistos : \A w \in vistos : freq(w) <= freq(v)}
    IN  CHOOSE v \in modas : \A w \in modas : w <= v

\* C10 (as claimed): on a non-empty history of valid draws the number of
\* even values in the output of jogo_pares_impares_equilibrado is the mode
\* of the per-draw even-counts, the largest of them on a tie, and the output
\* is that many top-frequency even numbers plus the complementary count of
\* top-frequency odd numbers.
C10_ParityModeLargestOnTie ==
    Gerou("jogo_pares_impares_equilibrado", 1) =>
      LET oc == Contagens(historico_numeros)
          q  == ModaParesMaior(historico_numeros)
          pares   == {n \in todos_numeros : n % 2 = 0}
          impares == {n \in todos_numeros : n % 2 # 0}
      IN  /\ QtdPares(ultimo.jogo) = q
          /\ Range(ultimo.jogo)
               = TopDesc(pares, oc, q) \cup TopDesc(impares, oc, TamanhoJogo - q)

\* Occurrence count of every number over all draws but the most recent.
ContagensAnteriores(h) == Contagens(SubSeq(h, 1, Len(h) - 1))

\* Numbers shared by draws i and i + 1, summed over all consecutive pairs.
TotalCompartilhados(h) ==
    SumSeq(Force([i \in 1..(Len(h) - 1) |->
                    Cardinality({n \in todos_numeros :
                                   n \in Range(h[i]) /\ n \in Range(h[i + 1])})]))

\* m is the mean shared count over the consecutive pairs, truncated.
IsTruncatedMeanShared(m, h) ==
    /\ m * (Len(h) - 1) <= TotalCompartilhados(h)
    /\ TotalCompartilhados(h) < (m + 1) * (Len(h) - 1)

\* C11: on a history of at least 2 valid draws, with m the truncated mean
\* shared count of consecutive draws, the output of
\* jogo_sequencias_repeticoes holds exactly m numbers of the most recent
\* draw, none of them with a lower count over the earlier draws than a
\* number of that draw left out, and exactly 15 - m numbers outside the most
\* recent draw, none of them with a lower total count than an outside
\* number left out.
C11_RepetitionMix ==
    Gerou("jogo_sequencias_repeticoes", 2) =>
      LET h      == historico_numeros
          recente == Range(h[Len(h)])
          in     == Range(ultimo.jogo)
          ant    == ContagensAnteriores(h)
          oc     == Contagens(h)
          m      == Cardinality(in \cap recente)
      IN  /\ IsTruncatedMeanShared(m, h)
          /\ Cardinality(in \ recente) = TamanhoJogo - m
          /\ in \subseteq todos_numeros
          /\ \A n \in recente \ in : \A k \in in \cap recente : ant[n] <= ant[k]
          /\ \A n \in (todos_numeros \ recente) \ in :
               \A k \in in \ recente : oc[n] <= oc[k]

\* jogo_sequencias_repeticoes has returned on three draws whose mean shared
\* count is not an integer, leaving out numbers of the most recent draw and
\* numbers outside it.
C11_Witness ==
    /\ Gerou("jogo_sequencias_repeticoes", 2)
    /\ Len(historico_numeros) = 3
    /\ TotalCompartilhados(historico_numeros) % 2 = 1
    /\ Range(historico_numeros[3]) \ Range(ultimo.jogo) # {}
    /\ Range(ultimo.jogo) \ Range(historico_numeros[3]) # {}
    /\ Cardinality(Range(ultimo.jogo)) = TamanhoJogo

\* The Scoring-Engine score of every number, as a numerator over |History|.
PontuacaoPadrao(h) ==
    Force([n \in todos_numeros |->
             calcular_probabilidade_proximo(_analisar_padroes_numero(h, n),
                                            Len(h)).n])

\* Some number of the output and some number left out have the same score.
EmpateNaFronteira(jogo, pontos) ==
    \E n \in Range(jogo) : \E k \in todos_numeros \ Range(jogo) :
       pontos[n] = pontos[k]

\* C12: on a non-empty history of valid draws jogo_probabilidade_padrao
\* returns the first 15 numbers by Scoring-Engine score descending and
\* jogo_machine_learning_scoring the first 15 by blended score descending,
\* equal scores ordered by ascending number, so that a tie at the selection
\* boundary goes to the lower number.
C12_RankingTiesAscending ==
    /\ Gerou("jogo_probabilidade_padrao", 1) =>
         /\ IsAscending(ultimo.jogo)
         /\ Range(ultimo.jogo)
              = TopDesc(todos_numeros, PontuacaoPadrao(historico_numeros),
                        TamanhoJogo)
    /\ Gerou("jogo_machine_learning_scoring", 1) =>
         /\ IsAscending(ultimo.jogo)
         /\ Range(ultimo.jogo)
              = TopDesc(todos_numeros, ScoresML(historico_numeros), TamanhoJogo)

\* jogo_probabilidade_padrao has returned a game whose last place was
\* decided between numbers of equal score.
C12_Witness ==
    /\ Gerou("jogo_probabilidade_padrao", 1)
    /\ EmpateNaFronteira(ultimo.jogo, PontuacaoPadrao(historico_numeros))
    /\ Len(ultimo.jogo) = TamanhoJogo

\* jogo_machine_learning_scoring has done the same.
C12_WitnessScoring ==
    /\ Gerou("jogo_machine_learning_scoring", 1)
    /\ EmpateNaFronteira(ultimo.jogo, ScoresML(historico_numeros))
    /\ Len(ultimo.jogo) = TamanhoJogo

GeradoresBiblioteca ==
    {"jogo_clusterizacao_kmeans", "jogo_series_temporais_lstm"}

\* The generator whose outcome the caller took has been called again and,
\* if it calls a library, the library has done the same as before.
ChamadoDeNovo ==
    /\ guardado.op \in Geradores \cup GeradoresBiblioteca
    /\ ultimo.op = guardado.op
    /\ ultimo.op \in GeradoresBiblioteca => ultimo.lib = guardado.lib

C13_WitnessKMeans ==
    /\ guardado.op = "jogo_clusterizacao_kmeans"
    /\ Len(guardado.jogo) = TamanhoJogo
    /\ ChamadoDeNovo
    /\ Len(ultimo.jogo) = TamanhoJogo

\* The last call was jogo_series_temporais_lstm.
ChamouLstm == ultimo.op = "jogo_series_temporais_lstm"

\* An empty game with at least one line of explanation, and no exception.
VazioComMensagem(r) ==
    /\ ~r.raised
    /\ r.jogo = <<>>
    /\ r.detalhes # <<>>

\* C14: jogo_series_temporais_lstm returns an empty game with a non-empty
\* message, and does not raise, when the library is unavailable, when the
\* history has fewer than 11 draws and when fit raises; it reaches fit only
\* with the library available and at least 11 draws.
C14_LstmDegradedModes ==
    ChamouLstm =>
      /\ (ultimo.lib.falha = "indisponivel"
          \/ Len(historico_numeros) < 11
          \/ ultimo.lib.falha = "fit") => VazioComMensagem(ultimo)
      /\ (\E i \in DOMAIN ultimo.chamadas : ultimo.chamadas[i] = "fit")
           => /\ ultimo.lib.falha # "indisponivel"
              /\ Len(historico_numeros) >= 11

\* fit has raised on a history of 11 draws.
C14_Witness ==
    /\ ChamouLstm
    /\ Len(historico_numeros) >= 11
    /\ ultimo.lib.falha = "fit"
    /\ ultimo.chamadas = <<"Sequential", "compile", "fit">>

\* The library is unavailable, on a history of 11 draws.
C14_WitnessIndisponivel ==
    /\ ChamouLstm
    /\ Len(historico_numeros) >= 11
    /\ ultimo.lib.falha = "indisponivel"

\* The library is available and the history has 10 draws.
C14_WitnessCurto ==
    /\ ChamouLstm
    /\ Len(historico_numeros) = 10
    /\ ultimo.lib.falha = "nao chamada"

\* The calls into the libraries that can raise.
FalhasBiblioteca == {"fit", "Sequential", "compile", "predict"}

\* C15 (as claimed): when a call into the library raises (the clustering
\* fit; the construction, compile, fit or predict of the sequence model), the
\* library generator returns an empty game with a message and does not
\* raise, and gerar_todos_jogos, on a history of at least 2 valid draws,
\* still returns its nine entries.
C15_LibraryFailureCaught ==
    /\ (ultimo.op \in GeradoresBiblioteca
        /\ ultimo.lib.falha \in FalhasBiblioteca) => VazioComMensagem(ultimo)
    /\ (ultimo.op = "gerar_todos_jogos"
        /\ Len(historico_numeros) >= 2
        /\ ValidHistory(historico_numeros)
        /\ \E i \in DOMAIN ultimo.lib : ultimo.lib[i].falha \in FalhasBiblioteca)
         => /\ ~ultimo.raised
            /\ Len(ultimo.jogos_finais) = 9

\* The part of C15 that the clustering generator bears out: a raising fit
\* gives an empty game with a message.
C15_KMeansFailureCaught ==
    (ultimo.op = "jogo_clusterizacao_kmeans" /\ ultimo.lib.falha = "fit")
      => VazioComMensagem(ultimo)

\* C16 (as claimed): on a non-empty history shorter than a generator needs,
\* the generator returns an empty game with a message and does not raise:
\* jogo_series_temporais_lstm with fewer than 11 draws and
\* jogo_sequencias_repeticoes with a single draw; and gerar_todos_jogos, on a
\* non-empty history of valid draws, returns an entry for each of the nine
\* generators.
C16_ShortHistoryNonFatal ==
    LET n == Len(historico_numeros)
    IN  /\ (ChamouLstm /\ n >= 1 /\ n < 11 /\ ultimo.lib.falha # "indisponivel")
             => VazioComMensagem(ultimo)
        /\ (ultimo.op = "jogo_sequencias_repeticoes" /\ n = 1)
             => ~ultimo.raised /\ ultimo.jogo = <<>>
        /\ (ultimo.op = "gerar_todos_jogos" /\ n >= 1 /\ n < 11
            /\ ValidHistory(historico_numeros))
             => ~ultimo.raised /\ Len(ultimo.jogos_finais) = 9

\* The part of C16 that jogo_series_temporais_lstm bears out.
C16_LstmShortHistoryNonFatal ==
    (ChamouLstm /\ Len(historico_numeros) < 11
     /\ ultimo.lib.falha # "indisponivel") => VazioComMensagem(ultimo)

\* The 25-entry score vector the generator ranked: the centre of the
\* cluster with the most draws, or the prediction.
MaiorCluster(labels) ==
    LET ids     == Range(labels)
        size(k) == Cardinality({i \in DOMAIN labels : labels[i] = k})
    IN  {k \in ids : \A j \in ids : size(j) <= size(k)}

\* A library generator has returned after the library gave a score vector.
BibliotecaDeuVetor ==
    /\ ultimo.op \in GeradoresBiblioteca
    /\ ~ultimo.raised
    /\ ultimo.lib.falha = "nenhuma"

\* C17: when the library call succeeds, the output of a library generator
\* is the 15 positions of the score vector with the highest values, equal
\* values ordered by ascending position, as 15 distinct ascending numbers;
\* the vector is the centre of a cluster no other cluster outnumbers for
\* jogo_clusterizacao_kmeans, and the prediction, made only with at least 11
\* draws, for jogo_series_temporais_lstm.
C17_AdapterTop15 ==
    BibliotecaDeuVetor =>
      /\ IsCandidateSet(ultimo.jogo)
      /\ ultimo.op = "jogo_clusterizacao_kmeans" =>
           \E k \in MaiorCluster(ultimo.lib.cluster_labels) :
              Range(ultimo.jogo)
                = TopDesc(todos_numeros, ultimo.lib.cluster_centers[k + 1],
                          TamanhoJogo)
      /\ ultimo.op = "jogo_series_temporais_lstm" =>
           /\ Len(historico_numeros) >= 11
           /\ Range(ultimo.jogo)
                = TopDesc(todos_numeros, ultimo.lib.previsao_prob, TamanhoJogo)

\* jogo_clusterizacao_kmeans has ranked a centre in which the value of the
\* last number taken equals that of a number left out.
C17_Witness ==
    /\ BibliotecaDeuVetor
    /\ ultimo.op = "jogo_clusterizacao_kmeans"
    /\ \E k \in MaiorCluster(ultimo.lib.cluster_labels) :
         EmpateNaFronteira(ultimo.jogo, ultimo.lib.cluster_centers[k + 1])
    /\ Len(ultimo.jogo) = TamanhoJogo

\* jogo_series_temporais_lstm has ranked such a prediction.
C17_WitnessLstm ==
    /\ BibliotecaDeuVetor
    /\ ultimo.op = "jogo_series_temporais_lstm"
    /\ EmpateNaFronteira(ultimo.jogo, ultimo.lib.previsao_prob)
    /\ Len(ultimo.jogo) = TamanhoJogo

\* C18 (as claimed): on an empty history _analisar_padroes_numero returns,
\* for every number, statistics whose total of appearances, run lists, means
\* and maxima of both run lists and both trailing counters are zero or
\* empty, and it does not raise.
C18_EmptyHistoryAllZero ==
    (ultimo.op = "_analisar_padroes_numero" /\ historico_numeros = <<>>) =>
      /\ ~ultimo.raised
      /\ LET st == ultimo.stats[1]
         IN  /\ st.total_aparicoes = 0
             /\ st.sequencias_presente = <<>>
             /\ st.sequencias_ausente = <<>>
             /\ st.media_seq_presente.n = 0
             /\ st.media_seq_ausente.n = 0
             /\ st.max_seq_presente = 0
             /\ st.max_seq_ausente = 0
             /\ st.sorteios_sem_aparecer = 0
             /\ st.sorteios_aparecendo = 0

\* Numbers of band f drawn, summed over the draws of h.
TotalNaFaixa(h, f) ==
    SumSeq(Force([i \in DOMAIN h |-> Cardinality(Range(h[i]) \cap Faixa(f))]))

\* q is an integer nearest to total / n.
IsNearestInteger(q, total, n) ==
    /\ 2 * q * n - 2 * total <= n
    /\ 2 * total - 2 * q * n <= n

\* C19: on a non-empty history of valid draws jogo_distribuicao_espacial
\* returns, and its output holds, for each of the five bands, q numbers
\* of the band, q an integer nearest to the mean number of drawn values in
\* the band; they are the first q numbers of the band by count descending,
\* ties to the lower number; the size of the output is the sum of the five
\* quotas.
C19_BandQuotas ==
    (/\ ultimo.op = "jogo_distribuicao_espacial"
     /\ Len(historico_numeros) >= 1
     /\ ValidHistory(historico_numeros)) =>
      LET h  == historico_numeros
          oc == Contagens(h)
          in == Range(ultimo.jogo)
      IN  /\ ~ultimo.raised
          /\ IsAscending(ultimo.jogo)
          /\ in \subseteq todos_numeros
          /\ \A f \in 1..NumFaixas :
               LET q == Cardinality(in \cap Faixa(f))
               IN  /\ IsNearestInteger(q, TotalNaFaixa(h, f), Len(h))
                   /\ in \cap Faixa(f) = TopDesc(Faixa(f), oc, q)

\* jogo_distribuicao_espacial has returned on a history where the mean of a
\* band lies halfway between two integers and the quotas do not sum to 15.
C19_Witness ==
    /\ Gerou("jogo_distribuicao_espacial", 2)
    /\ \E f \in 1..NumFaixas :
         (2 * TotalNaFaixa(historico_numeros, f)) % (2 * Len(historico_numeros))
           = Len(historico_numeros)
    /\ Len(ultimo.jogo) # TamanhoJogo
    /\ Len(ultimo.jogo) > 0

\* The same on a history where the mean of a band is not halfway and is
\* rounded up.
C19_WitnessRoundedUp ==
    /\ Gerou("jogo_distribuicao_espacial", 2)
    /\ \E f \in 1..NumFaixas :
         LET q == Cardinality(Range(ultimo.jogo) \cap Faixa(f))
         IN  /\ q * Len(historico_numeros) > TotalNaFaixa(historico_numeros, f)
             /\ 2 * q * Len(historico_numeros)
                  - 2 * TotalNaFaixa(historico_numeros, f)
                  < Len(historico_numeros)

\* calcular_probabilidade_proximo has been called for a number on a
\* non-empty history of valid draws.
Pontuou ==
    /\ ultimo.op = "calcular_probabilidade_proximo"
    /\ Len(historico_numeros) >= 1
    /\ ValidHistory(historico_numeros)

\* The situation points the claim allows for the run-length statistics s.
PontosAdmitidos(s) == IF s.apareceu_ultimo THEN {50, 20} ELSE {60, 10}

\* The penalty the claim describes: 30 when the number is appearing with a
\* current run above 0.8 times its longest presence run.
PenalidadeDescrita(s) ==
    IF s.apareceu_ultimo /\ 10 * s.sorteios_aparecendo > 8 * s.max_seq_presente
    THEN 30 ELSE 0

C20_WitnessAlto ==
    /\ Pontuou
    /\ ~ultimo.raised
    /\ ~ultimo.stats[1].apareceu_ultimo
    /\ ultimo.score.n >= 80 * ultimo.score.d

\* A score has been returned whose frequency bonus is the whole 30.
C20_WitnessBonusCheio ==
    /\ Pontuou
    /\ ~ultimo.raised
    /\ Len(historico_numeros) >= 2
    /\ ultimo.freq_normalizada.n = ultimo.freq_normalizada.d

\* Numbers shared by draws i and i + 1 of h.
Compartilhados(h, i) == Range(h[i]) \cap Range(h[i + 1])

\* C21: on a history of at least 2 valid draws, any two consecutive draws
\* share at least 5 numbers, the truncated mean repetition m lies in 5..15,
\* the numbers outside the most recent draw are at least the 15 - m new
\* numbers needed, and jogo_sequencias_repeticoes returns 15 distinct
\* numbers of 1..25 in ascending order, m of the most recent draw and
\* 15 - m outside it, with no number taken twice.
C21_RepetitionFillsFifteen ==
    (/\ ultimo.op = "jogo_sequencias_repeticoes"
     /\ Len(historico_numeros) >= 2
     /\ ValidHistory(historico_numeros)) =>
      LET h       == historico_numeros
          recente == Range(h[Len(h)])
          fora    == todos_numeros \ recente
          m       == TotalCompartilhados(h) \div (Len(h) - 1)
          in      == Range(ultimo.jogo)
      IN  /\ ~ultimo.raised
          /\ \A i \in 1..(Len(h) - 1) : Cardinality(Compartilhados(h, i)) >= 5
          /\ 5 <= m
          /\ m <= TamanhoJogo
          /\ Cardinality(fora) >= TamanhoJogo - m
          /\ Len(ultimo.jogo) = TamanhoJogo
          /\ IsAscending(ultimo.jogo)
          /\ in \subseteq todos_numeros
          /\ Cardinality(in \cap recente) = m
          /\ Cardinality(in \cap fora) = TamanhoJogo - m

\* jogo_sequencias_repeticoes has returned on a history whose consecutive
\* draws share 5 numbers each, with every number outside the most recent
\* draw in the output.
C21_Witness ==
    /\ Gerou("jogo_sequencias_repeticoes", 2)
    /\ TotalCompartilhados(historico_numeros) = 5 * (Len(historico_numeros) - 1)
    /\ (todos_numeros \ Range(historico_numeros[Len(historico_numeros)]))
         \subseteq Range(ultimo.jogo)

\* The same on a history of equal draws: the output is the most recent draw.
C21_WitnessTodosRepetidos ==
    /\ Gerou("jogo_sequencias_repeticoes", 2)
    /\ TotalCompartilhados(historico_numeros)
         = TamanhoJogo * (Len(historico_numeros) - 1)
    /\ Range(ultimo.jogo) = Range(historico_numeros[Len(historico_numeros)])

\* The same with a mean strictly between the two: some numbers of the most
\* recent draw and some outside it are left out.
C21_WitnessMisto ==
    /\ Gerou("jogo_sequencias_repeticoes", 3)
    /\ TotalCompartilhados(historico_numeros) % (Len(historico_numeros) - 1) # 0
    /\ \E n \in Range(historico_numeros[Len(historico_numeros)]) :
         n \notin Range(ultimo.jogo)
    /\ \E n \in todos_numeros \ Range(historico_numeros[Len(historico_numeros)]) :
         n \notin Range(ultimo.jogo)

====
